---- MODULE Spec2Model ----
(***************************************************************************)
(* Model of src/systray.c: the systray selection claim (systray_init), the *)
(* dock request (systray_request_handle), and the two client-message       *)
(* handlers (systray_process_client_message,                               *)
(* xembed_process_client_message).  The X server and the collaborators     *)
(* that live outside systray.c are modelled at their call boundary: every  *)
(* request the handlers issue is recorded, in order, in `calls`.           *)
(*                                                                         *)
(* The handlers are operators over the sets their inputs are drawn from.   *)
(* Three specifications run them in three environments: Spec (the         *)
(* registry: many windows, every screen root resolves), SpecScreens (one   *)
(* target window, every message code and geometry reply, trays on every    *)
(* screen) and SpecInfo (one target window, every info record, every       *)
(* XEMBED_VERSION).                                                        *)
(***************************************************************************)
EXTENDS Integers, Sequences, FiniteSets

\* ---------------------------------------------------------------- bounds
MaxWin == 2         \* client window handles are 1..MaxWin
NScreen == 2        \* globalconf.screens_info->nscreen
MaxVersion == 1     \* protocol versions range over 0..MaxVersion
MaxTray == 2        \* number of tray windows simplewindow_new may create

\* ------------------------------------------------------ program constants
SYSTEM_TRAY_REQUEST_DOCK == 0
XEMBED_VERSION == 0
XEMBED_REQUEST_FOCUS == 3
XEMBED_FOCUS_CURRENT == 0
XEMBED_MAPPED == 1
XCB_WM_WITHDRAWN_STATE == 0
XCB_CURRENT_TIME == 0

\* ------------------------------------------------------------ value sets
Windows == 1..MaxWin
FirstWindow == {w \in Windows : \A v \in Windows : w <= v}
TrayWindows == (MaxWin + 1)..(MaxWin + MaxTray)
\* what a read outside the screen table may give: some handle, or a fault
WildWindow == MaxWin + MaxTray + 1
SEGV == MaxWin + MaxTray + 2
Screens == 0..(NScreen - 1)
FirstScreen == {s \in Screens : \A t \in Screens : s <= t}
\* data32[1]: every code up to one past the largest one a handler knows
Codes == 0..(XEMBED_REQUEST_FOCUS + 1)
DockCodes == {SYSTEM_TRAY_REQUEST_DOCK}
Versions == 0..MaxVersion
\* the flag words over XEMBED_MAPPED and the bit above it
Flags == 0..(4 * XEMBED_MAPPED - 1)

\* xembed_info_t; NoInfo stands for a NULL info pointer / a failed query
Infos == [version : Versions, flags : Flags]
NoInfo == [version |-> -1, flags |-> 0]
ZeroInfo == [version |-> 0, flags |-> 0]
\* two info records that differ in both fields
InfoPair == {ZeroInfo, [version |-> MaxVersion, flags |-> XEMBED_MAPPED]}

\* the ordered list of screen roots of the connection setup
Roots == [i \in Screens |-> i + 1]
RootSet == {Roots[i] : i \in Screens}
\* geometry replies: 0 is "no reply", otherwise the root of the window
NoReply == 0
GeomReplies == 0..(NScreen + 1)

\* atoms: _NET_SYSTEM_TRAY_S<n> is n + 1, MANAGER is NScreen + 1, 0 is none
TrayAtom(phys_screen) == phys_screen + 1
ManagerAtom == NScreen + 1
Atoms == 1..(NScreen + 1)

VARIABLES
    embedded,        \* globalconf.embedded, the list of xembed_window_t
    systray,         \* globalconf.screens[i].systray (0 is NULL)
    ntray,           \* tray windows created so far by simplewindow_new
    created,         \* created[k]: the screen of the k-th tray window; none is destroyed
    selowner,        \* X selection owner of each atom (0 is none)
    xembed_version,  \* the XEMBED_VERSION this build was compiled with
    calls,           \* requests issued by the handler that ran last
    last,            \* the handler that ran last, its inputs and status
    crashed          \* a wild pointer was dereferenced

vars == <<embedded, systray, ntray, created, selowner, xembed_version, calls,
          last, crashed>>

Call(c, w, x, y) == [call |-> c, win |-> w, a |-> x, b |-> y]

\* op: the handler; window: ev->window; code: data32[1]; target: data32[2]
\* or embed_win; geom: the geometry reply; reply: the xembed_info_get reply;
\* ev: the event systray_init filled (response_type, then data32[0..4])
NoLast == [op |-> "none", window |-> 0, code |-> 0, target |-> 0,
           phys_screen |-> 0, info |-> NoInfo, geom |-> NoReply,
           reply |-> NoInfo, status |-> 0, ev |-> <<>>]

MIN_max(a, b) == IF a < b THEN b ELSE a

MIN(a, b) == IF a < b THEN a ELSE b

\* if(em->info.flags) in place of the mask
FlagSet_any(flags, bit) == flags # 0

\* em->info.flags & XEMBED_MAPPED
FlagSet(flags, bit) == (flags \div bit) % 2 = 1

RECURSIVE IndexOf(_, _, _)
IndexOf(list, win, i) ==
    IF i > Len(list) THEN 0
    ELSE IF list[i].win = win THEN i
    ELSE IndexOf(list, win, i + 1)

\* a plain list append, with no lookup of the handle
xembed_window_list_append_plain(list, em) == Append(list, em)

\* an append that leaves a known handle's record as it was
xembed_window_list_append_keep(list, em) ==
    IF IndexOf(list, em.win, 1) = 0 THEN Append(list, em) ELSE list

\* a push at the head of the list for a handle not yet known
xembed_window_list_append_front(list, em) ==
    LET i == IndexOf(list, em.win, 1)
    IN  IF i = 0 THEN <<em>> \o list
        ELSE [list EXCEPT ![i] = em]

\* registry append, idempotent by handle: a known handle keeps its place and
\* takes the new record
xembed_window_list_append(list, em) ==
    LET i == IndexOf(list, em.win, 1)
    IN  IF i = 0 THEN Append(list, em)
        ELSE [list EXCEPT ![i] = em]

\* the value read from globalconf.screens[phys_screen].systray->window:
\* 0 when the pointer is NULL; outside the table the read is undefined
ReadSystray(phys_screen) ==
    IF phys_screen \in Screens THEN {systray[phys_screen]}
    ELSE {0, SEGV, WildWindow}

\* the loop with a bound that stops one screen short
RECURSIVE invalidate_loop_short(_)
invalidate_loop_short(i) ==
    IF i < NScreen - 1
    THEN <<Call("widget_invalidate_cache", 0, i, 0)>> \o invalidate_loop_short(i + 1)
    ELSE <<>>

\* for(i = 0; i < globalconf.screens_info->nscreen; i++)
RECURSIVE invalidate_loop(_)
invalidate_loop(i) ==
    IF i < NScreen
    THEN <<Call("widget_invalidate_cache", 0, i, 0)>> \o invalidate_loop(i + 1)
    ELSE <<>>

\* the handshake sent before the window is put in the registry
systray_request_handle_notify_first(embed_win, phys_screen, info, prior, l, replies) ==
    \E q \in IF info # NoInfo THEN {NoInfo} ELSE replies,
       tray \in ReadSystray(phys_screen) :
        LET em_info == IF info # NoInfo THEN info
                       ELSE IF q # NoInfo THEN q ELSE ZeroInfo
            em == [win |-> embed_win, phys_screen |-> phys_screen, info |-> em_info]
            c1 == prior \o
                  << Call("xcb_change_window_attributes", embed_win, 0, 0),
                     Call("window_setstate", embed_win, XCB_WM_WITHDRAWN_STATE, 0) >>
            c2 == IF info # NoInfo THEN c1
                  ELSE Append(c1, Call("xembed_info_get", embed_win, 0, 0))
            c2a == IF tray # 0 /\ tray # SEGV
                   THEN Append(c2, Call("xembed_embedded_notify", embed_win, tray,
                                        MIN(xembed_version, em_info.version)))
                   ELSE c2
            c3 == Append(c2a, Call("xembed_window_list_append", embed_win, 0, 0))
            c4 == IF FlagSet(em_info.flags, XEMBED_MAPPED)
                  THEN Append(c3, Call("xcb_map_window", embed_win, 0, 0))
                  ELSE c3
            c5 == c4 \o invalidate_loop(0)
        IN  /\ embedded' = xembed_window_list_append(embedded, em)
            /\ IF tray = SEGV
               THEN /\ crashed' = TRUE
                    /\ calls' = c2
               ELSE /\ crashed' = FALSE
                    /\ calls' = c5
            /\ last' = [l EXCEPT !.target = embed_win, !.phys_screen = phys_screen,
                                 !.info = info, !.reply = q, !.status = 0]
            /\ UNCHANGED <<systray, ntray, created, selowner, xembed_version>>

\* the body of systray_request_handle, after the `prior` calls of its caller;
\* `replies` is what xembed_info_get may find on the window (NoInfo: nothing)
systray_request_handle(embed_win, phys_screen, info, prior, l, replies) ==
    \E q \in IF info # NoInfo THEN {NoInfo} ELSE replies,
       tray \in ReadSystray(phys_screen) :
        LET em_info == IF info # NoInfo THEN info
                       ELSE IF q # NoInfo THEN q ELSE ZeroInfo
            em == [win |-> embed_win, phys_screen |-> phys_screen, info |-> em_info]
            c1 == prior \o
                  << Call("xcb_change_window_attributes", embed_win, 0, 0),
                     Call("window_setstate", embed_win, XCB_WM_WITHDRAWN_STATE, 0) >>
            c2 == IF info # NoInfo THEN c1
                  ELSE Append(c1, Call("xembed_info_get", embed_win, 0, 0))
            c2a == Append(c2, Call("xembed_window_list_append", embed_win, 0, 0))
            c3 == IF tray # 0
                  THEN Append(c2a, Call("xembed_embedded_notify", embed_win, tray,
                                       MIN(xembed_version, em_info.version)))
                  ELSE c2a
            c4 == IF FlagSet(em_info.flags, XEMBED_MAPPED)
                  THEN Append(c3, Call("xcb_map_window", embed_win, 0, 0))
                  ELSE c3
            c5 == c4 \o invalidate_loop(0)
        IN  /\ embedded' = xembed_window_list_append(embedded, em)
            /\ IF tray = SEGV
               THEN /\ crashed' = TRUE
                    /\ calls' = c2a
               ELSE /\ crashed' = FALSE
                    /\ calls' = c5
            /\ last' = [l EXCEPT !.target = embed_win, !.phys_screen = phys_screen,
                                 !.info = info, !.reply = q, !.status = 0]
            /\ UNCHANGED <<systray, ntray, created, selowner, xembed_version>>

\* a switch whose dock case also takes the next code
IsDockRequest_wide(code) == code <= SYSTEM_TRAY_REQUEST_DOCK + 1

\* switch(ev->data.data32[1]) { case SYSTEM_TRAY_REQUEST_DOCK:
IsDockRequest(code) == code = SYSTEM_TRAY_REQUEST_DOCK

\* the reply is used without the NULL test
GeometryFailed_never(geom_r) == FALSE

\* if(!(geom_r = xcb_get_geometry_reply(...)))
GeometryFailed(geom_r) == geom_r = NoReply

\* the scan with the root comparison inverted
RECURSIVE screen_scan_inverted(_, _)
screen_scan_inverted(root, screen_nbr) ==
    IF screen_nbr < NScreen /\ Roots[screen_nbr] = root
    THEN screen_scan_inverted(root, screen_nbr + 1)
    ELSE screen_nbr

\* for(...; iter.rem && iter.data->root != geom_r->root; ..., ++screen_nbr)
RECURSIVE screen_scan(_, _)
screen_scan(root, screen_nbr) ==
    IF screen_nbr < NScreen /\ Roots[screen_nbr] # root
    THEN screen_scan(root, screen_nbr + 1)
    ELSE screen_nbr

\* a pointer to a zeroed info in place of NULL
MessageInfo_zero == ZeroInfo

\* the info handed to systray_request_handle by the message handler: NULL
MessageInfo == NoInfo

\* the window handed to systray_request_handle: ev->data.data32[2]
DockTarget(window, data32_2) == data32_2

\* a direct call of systray_request_handle by the rest of the window manager,
\* which has read the info of the window itself and passes it on
RequestHandle(wins, screens, infos) ==
    /\ ~crashed
    /\ \E embed_win \in wins, phys_screen \in screens, info \in infos :
        systray_request_handle(embed_win, phys_screen, info, <<>>,
                               [NoLast EXCEPT !.op = "request"], {NoInfo})

\* a systray client message: data32[1] from codes, delivered on a window of
\* senders whose geometry query is answered from geoms, data32[2] from
\* targets, whose info property reads as one of replies
systray_process_client_message(codes, senders, geoms, targets, replies) ==
    /\ ~crashed
    /\ \E code \in codes :
        IF IsDockRequest(code)
        THEN \E window \in senders, geom_r \in geoms :
                LET geom_c == <<Call("xcb_get_geometry", window, 0, 0)>>
                    l == [NoLast EXCEPT !.op = "systray", !.window = window,
                                        !.code = code, !.geom = geom_r]
                IN  IF GeometryFailed(geom_r)
                    THEN /\ calls' = geom_c
                         /\ last' = [l EXCEPT !.status = -1]
                         /\ UNCHANGED <<embedded, systray, ntray, created, selowner,
                                        xembed_version, crashed>>
                    ELSE \E data32_2 \in targets :
                            systray_request_handle(DockTarget(window, data32_2),
                                                   screen_scan(geom_r, 0), MessageInfo,
                                                   geom_c, [l EXCEPT !.target = data32_2],
                                                   replies)
        ELSE /\ calls' = <<>>
             /\ last' = [NoLast EXCEPT !.op = "systray", !.code = code]
             /\ UNCHANGED <<embedded, systray, ntray, created, selowner, xembed_version,
                            crashed>>

\* a focus handler that drops the sender from the registry
xembed_process_client_message_forget(codes, senders) ==
    /\ ~crashed
    /\ \E code \in codes, window \in senders :
        /\ calls' = IF code = XEMBED_REQUEST_FOCUS
                    THEN <<Call("xembed_focus_in", window, XEMBED_FOCUS_CURRENT, 0)>>
                    ELSE <<>>
        /\ embedded' = SelectSeq(embedded, LAMBDA em : em.win # window)
        /\ last' = [NoLast EXCEPT !.op = "xembed", !.window = window, !.code = code]
        /\ UNCHANGED <<systray, ntray, created, selowner, xembed_version, crashed>>

\* a focus handler that serves the windows of the registry only
xembed_process_client_message_registered(codes, senders) ==
    /\ ~crashed
    /\ \E code \in codes :
        IF code = XEMBED_REQUEST_FOCUS
        THEN \E window \in senders :
                /\ calls' = IF IndexOf(embedded, window, 1) # 0
                            THEN <<Call("xembed_focus_in", window,
                                        XEMBED_FOCUS_CURRENT, 0)>>
                            ELSE <<>>
                /\ last' = [NoLast EXCEPT !.op = "xembed", !.window = window,
                                          !.code = code]
                /\ UNCHANGED <<embedded, systray, ntray, created, selowner,
                               xembed_version, crashed>>
        ELSE /\ calls' = <<>>
             /\ last' = [NoLast EXCEPT !.op = "xembed", !.code = code]
             /\ UNCHANGED <<embedded, systray, ntray, created, selowner, xembed_version,
                            crashed>>

\* an embedding client message: data32[1] from codes, delivered on a window
\* of senders
xembed_process_client_message(codes, senders) ==
    /\ ~crashed
    /\ \E code \in codes :
        IF code = XEMBED_REQUEST_FOCUS
        THEN \E window \in senders :
                /\ calls' = <<Call("xembed_focus_in", window, XEMBED_FOCUS_CURRENT, 0)>>
                /\ last' = [NoLast EXCEPT !.op = "xembed", !.window = window,
                                          !.code = code]
                /\ UNCHANGED <<embedded, systray, ntray, created, selowner,
                               xembed_version, crashed>>
        ELSE /\ calls' = <<>>
             /\ last' = [NoLast EXCEPT !.op = "xembed", !.code = code]
             /\ UNCHANGED <<embedded, systray, ntray, created, selowner, xembed_version,
                            crashed>>

\* the tray window stored in the record of the first screen, whatever
\* phys_screen is
systray_init_first(screens) ==
    /\ ~crashed
    /\ ntray < MaxTray
    /\ \E phys_screen \in screens, atom_manager \in Atoms \cup {0} :
        LET w == MaxWin + ntray + 1
            atom_systray == TrayAtom(phys_screen)
        IN  /\ systray' = [systray EXCEPT ![0] = w]
            /\ ntray' = ntray + 1
            /\ created' = Append(created, phys_screen)
            /\ selowner' = [selowner EXCEPT ![atom_systray] = w]
            /\ calls' = << Call("xutil_intern_atom", 0, atom_manager, 0),
                           Call("xutil_intern_atom", 0, atom_systray, 0),
                           Call("simplewindow_new", w, phys_screen, 0),
                           Call("xcb_set_selection_owner", w, atom_systray,
                                XCB_CURRENT_TIME) >>
            /\ last' = [NoLast EXCEPT !.op = "init", !.phys_screen = phys_screen,
                                      !.window = w,
                                      !.ev = <<atom_manager, XCB_CURRENT_TIME,
                                               atom_systray, w, 0, 0>>]
            /\ UNCHANGED <<embedded, xembed_version, crashed>>

\* systray_init(phys_screen) for a screen of screens.  atom_name is read by
\* the first xutil_intern_atom before snprintf fills it, so the atom that
\* comes back as response_type is any atom or none
systray_init(screens) ==
    /\ ~crashed
    /\ ntray < MaxTray
    /\ \E phys_screen \in screens, atom_manager \in Atoms \cup {0} :
        LET w == MaxWin + ntray + 1
            atom_systray == TrayAtom(phys_screen)
        IN  /\ systray' = [systray EXCEPT ![phys_screen] = w]
            /\ ntray' = ntray + 1
            /\ created' = Append(created, phys_screen)
            /\ selowner' = [selowner EXCEPT ![atom_systray] = w]
            /\ calls' = << Call("xutil_intern_atom", 0, atom_manager, 0),
                           Call("xutil_intern_atom", 0, atom_systray, 0),
                           Call("simplewindow_new", w, phys_screen, 0),
                           Call("xcb_set_selection_owner", w, atom_systray,
                                XCB_CURRENT_TIME) >>
            /\ last' = [NoLast EXCEPT !.op = "init", !.phys_screen = phys_screen,
                                      !.window = w,
                                      !.ev = <<atom_manager, XCB_CURRENT_TIME,
                                               atom_systray, w, 0, 0>>]
            /\ UNCHANGED <<embedded, xembed_version, crashed>>

\* the state after start-up, for a build whose XEMBED_VERSION is in versions
Start(versions) ==
    /\ embedded = <<>>
    /\ systray = [i \in Screens |-> 0]
    /\ ntray = 0
    /\ created = <<>>
    /\ selowner = [a \in Atoms |-> 0]
    /\ xembed_version \in versions
    /\ calls = <<>>
    /\ last = NoLast
    /\ crashed = FALSE

\* ------------------------------------------------------------------ Spec
\* the registry: every window may dock on every screen, directly or by a
\* message whose sender sits on a screen of the setup; no tray is announced
Init == Start({XEMBED_VERSION})

Dock == RequestHandle(Windows, Screens, InfoPair)

DockMessage ==
    systray_process_client_message(DockCodes, FirstWindow, RootSet \cup {NoReply},
                                   Windows, InfoPair \cup {NoInfo})

Next ==
    \/ Dock
    \/ DockMessage

Spec == Init /\ [][Next]_vars

\* ----------------------------------------------------------- SpecScreens
\* one target window; messages of every code, from senders with every
\* geometry reply, also none and a root of no screen; trays on every screen
AnnounceAny == systray_init(Screens)

ScreenMessage ==
    systray_process_client_message(Codes, Windows, GeomReplies,
                                   FirstWindow, InfoPair \cup {NoInfo})

EmbedMessage == xembed_process_client_message(Codes, Windows)

NextScreens ==
    \/ AnnounceAny
    \/ ScreenMessage
    \/ EmbedMessage

SpecScreens == Init /\ [][NextScreens]_vars

\* -------------------------------------------------------------- SpecInfo
\* one target window with every info record, docked directly or by message,
\* in a build of every XEMBED_VERSION
InitInfo == Start(Versions)

InfoDock == RequestHandle(FirstWindow, Screens, Infos)

InfoMessage ==
    systray_process_client_message(DockCodes, FirstWindow, RootSet,
                                   FirstWindow, Infos \cup {NoInfo})

NextInfo ==
    \/ AnnounceAny
    \/ InfoDock
    \/ InfoMessage

SpecInfo == InitInfo /\ [][NextInfo]_vars

\* ---------------------------------------------------------------- claims

\* systray_request_handle ran for the last message or call
DockRan ==
    \/ last.op = "request"
    \/ /\ last.op = "systray"
       /\ last.code = SYSTEM_TRAY_REQUEST_DOCK
       /\ last.geom # NoReply

\* ... and returned
DockReturned == DockRan /\ ~crashed

\* the info the last dock request ended up with
EffInfo ==
    IF last.info # NoInfo THEN last.info
    ELSE IF last.reply # NoInfo THEN last.reply
    ELSE ZeroInfo

EntriesOf(win) == {i \in 1..Len(embedded) : embedded[i].win = win}

\* the index of the first screen whose root is `root`
FirstScreenOf(root) ==
    CHOOSE n \in Screens : Roots[n] = root /\ \A m \in 0..(n - 1) : Roots[m] # root

CallsNamed(name) == {i \in 1..Len(calls) : calls[i].call = name}

\* C1: every window handle appears at most once in globalconf.embedded,
\* also after the same window was docked more than once.
C1_UniqueHandles ==
    \A i, j \in 1..Len(embedded) : i # j => embedded[i].win # embedded[j].win

\* a window that was already first in a registry of two is docked again
C1_Witness ==
    /\ DockRan
    /\ Len(embedded) = 2
    /\ embedded[1].win = last.target

\* C2: docking a handle that is already registered leaves the count as it
\* was, and the one entry of that handle holds the info of the later call.
C2_IdempotentRegistration ==
    [][ (DockRan' /\ \E i \in 1..Len(embedded) : embedded[i].win = last'.target)
        => /\ Len(embedded') = Len(embedded)
           /\ Cardinality(EntriesOf(last.target)') = 1
           /\ \A i \in 1..Len(embedded') :
                embedded'[i].win = last'.target => embedded'[i].info = EffInfo' ]_vars

\* a direct call re-docks the first of two registered windows with its info
C2_Witness ==
    /\ last.op = "request"
    /\ Len(embedded) = 2
    /\ embedded[1].win = last.target
    /\ embedded[1].info = last.info
    /\ embedded[1].info # embedded[2].info

\* C3: a dock request whose sender's root matches no screen root returns a
\* negative status and leaves the registry unchanged.
C3_NoMatchAborts ==
    [][ ( /\ last'.op = "systray"
          /\ last'.code = SYSTEM_TRAY_REQUEST_DOCK
          /\ last'.geom \notin RootSet \cup {NoReply} )
        => /\ last'.status < 0
           /\ embedded' = embedded ]_vars

\* C4: a dock request whose geometry query gets no reply returns a negative
\* status, leaves the registry and the tray-owner table unchanged, and
\* issues no subscribe, state, handshake, map or invalidation call.
C4_NoReplyNoEffect ==
    [][ ( /\ last'.op = "systray"
          /\ last'.code = SYSTEM_TRAY_REQUEST_DOCK
          /\ last'.geom = NoReply )
        => /\ last'.status < 0
           /\ ~crashed'
           /\ embedded' = embedded
           /\ systray' = systray
           /\ \A i \in 1..Len(calls') :
                calls'[i].call \notin {"xcb_change_window_attributes", "window_setstate",
                                       "xembed_embedded_notify", "xcb_map_window",
                                       "widget_invalidate_cache"} ]_vars

\* a dock request gets no geometry reply while a window is registered
C4_Witness ==
    /\ last.op = "systray"
    /\ last.code = SYSTEM_TRAY_REQUEST_DOCK
    /\ last.geom = NoReply
    /\ last.status = -1
    /\ Len(embedded) > 0
    /\ CallsNamed("xcb_get_geometry") = {1}

\* C5: a dock request whose sender's root is the Nth screen root (first
\* match) leaves exactly one entry whose handle is payload slot 2, and its
\* phys_screen is N.
C5_ScreenResolution ==
    ( /\ last.op = "systray"
      /\ last.code = SYSTEM_TRAY_REQUEST_DOCK
      /\ last.geom \in RootSet )
    => /\ ~crashed
       /\ Cardinality(EntriesOf(last.target)) = 1
       /\ \A i \in EntriesOf(last.target) :
            embedded[i].phys_screen = FirstScreenOf(last.geom)
       /\ (last.window # last.target /\ Len(embedded) = 1)
            => EntriesOf(last.window) = {}

\* the sender, not itself the target, sits on the second screen
C5_Witness ==
    /\ last.op = "systray"
    /\ last.code = SYSTEM_TRAY_REQUEST_DOCK
    /\ last.geom = Roots[1]
    /\ last.window # last.target
    /\ \E i \in 1..Len(embedded) :
        embedded[i].win = last.target /\ embedded[i].phys_screen = 1

\* C6: every handshake carries the smaller of the build's XEMBED_VERSION and
\* the version in the docked window's info.
C6_VersionNegotiation ==
    \A i \in CallsNamed("xembed_embedded_notify") :
        LET v == calls[i].b
            L == xembed_version
            C == EffInfo.version
        IN  /\ v <= L
            /\ v <= C
            /\ v = L \/ v = C

\* a handshake went out where the build's version is above the client's
C6_Witness ==
    /\ DockReturned
    /\ CallsNamed("xembed_embedded_notify") # {}
    /\ xembed_version > EffInfo.version

\* a handshake went out where the client's version is above the build's
C6_WitnessClientAbove ==
    /\ DockReturned
    /\ CallsNamed("xembed_embedded_notify") # {}
    /\ xembed_version < EffInfo.version

\* C7: a dock request that returned has mapped the target exactly when the
\* info's flags hold XEMBED_MAPPED; without the bit the target was set to
\* the withdrawn state and no window was mapped.
C7_VisibilityFollowsFlag ==
    DockReturned =>
        LET bit == (EffInfo.flags \div XEMBED_MAPPED) % 2 = 1
            maps == CallsNamed("xcb_map_window")
        IN  /\ bit <=> (\E i \in maps : calls[i].win = last.target)
            /\ Cardinality(maps) <= 1
            /\ ~bit => /\ maps = {}
                       /\ \E i \in CallsNamed("window_setstate") :
                            /\ calls[i].win = last.target
                            /\ calls[i].a = XCB_WM_WITHDRAWN_STATE

\* a dock request with the mapped bit has mapped its target
C7_Witness ==
    /\ DockReturned
    /\ EffInfo.flags = XEMBED_MAPPED
    /\ \E i \in CallsNamed("xcb_map_window") : calls[i].win = last.target

\* a dock request without the mapped bit has returned
C7_WitnessUnmapped ==
    /\ DockReturned
    /\ EffInfo.flags = 0
    /\ CallsNamed("xcb_map_window") = {}

\* C8: a dock request that returned has invalidated the embedded cache of
\* every screen 0..nscreen-1 exactly once, and of no other index.
C8_InvalidationFanOut ==
    DockReturned =>
        LET inv == CallsNamed("widget_invalidate_cache")
        IN  /\ \A s \in Screens : Cardinality({i \in inv : calls[i].a = s}) = 1
            /\ \A i \in inv : calls[i].a \in Screens

\* a dock on the last screen has invalidated the first screen as well
C8_Witness ==
    /\ DockReturned
    /\ last.phys_screen = NScreen - 1
    /\ \E i \in CallsNamed("widget_invalidate_cache") : calls[i].a = 0

\* C9: an embedding message, whatever its code, leaves the registry and the
\* tray-owner table as they were.
C9_FocusIsolation ==
    [][ last'.op = "xembed" => (embedded' = embedded /\ systray' = systray) ]_vars

\* a registered window asks for the focus while a tray exists
C9_Witness ==
    /\ last.op = "xembed"
    /\ last.code = XEMBED_REQUEST_FOCUS
    /\ EntriesOf(last.window) # {}
    /\ \E s \in Screens : systray[s] # 0

\* C10: a systray message whose code is not the dock request, and an
\* embedding message whose code is not the focus request, return 0, leave
\* the registry and the tray-owner table unchanged and issue no call.
C10_UnrecognizedIgnored ==
    [][ ( \/ last'.op = "systray" /\ last'.code # SYSTEM_TRAY_REQUEST_DOCK
          \/ last'.op = "xembed" /\ last'.code # XEMBED_REQUEST_FOCUS )
        => /\ last'.status = 0
           /\ ~crashed'
           /\ embedded' = embedded
           /\ systray' = systray
           /\ calls' = <<>> ]_vars

\* a systray message with another code arrives while a window is registered
C10_Witness ==
    /\ last.op = "systray"
    /\ last.code # SYSTEM_TRAY_REQUEST_DOCK
    /\ last.status = 0
    /\ calls = <<>>
    /\ Len(embedded) > 0

\* an embedding message with another code arrives while a window is registered
C10_WitnessEmbedding ==
    /\ last.op = "xembed"
    /\ last.code # XEMBED_REQUEST_FOCUS
    /\ calls = <<>>
    /\ Len(embedded) > 0

\* the calls named a all come before the calls named b
Before(a, b) == \A i \in CallsNamed(a), j \in CallsNamed(b) : i < j

\* the tray windows created for screen s; the code destroys none
TraysOf(s) == {k \in 1..Len(created) : created[k] = s}

\* C11: systray_init sends the manager event to a root window, with the
\* payload current time, tray selection atom of the screen, tray window of
\* the screen, 0, 0.
C11_AnnounceBroadcast ==
    last.op = "init" =>
        /\ \E i \in CallsNamed("xcb_send_event") : calls[i].win \in RootSet
        /\ SubSeq(last.ev, 2, 6) = << XCB_CURRENT_TIME, TrayAtom(last.phys_screen),
                                      systray[last.phys_screen], 0, 0 >>

\* C12: after any sequence of systray_init calls, every screen has at most
\* one tray window that was created for it and not destroyed.
C12_OneTrayPerScreen ==
    \A s \in Screens : Cardinality(TraysOf(s)) <= 1

\* C13: the registry starts empty; no step shortens it, removes an entry or
\* moves one; a step that lengthens it is a dock request whose target is the
\* one new, last entry.
C13_AppendOnly ==
    /\ embedded = <<>>
    /\ [][ /\ Len(embedded') >= Len(embedded)
           /\ \A i \in 1..Len(embedded) : embedded'[i].win = embedded[i].win
           /\ Len(embedded') > Len(embedded)
                => /\ DockRan'
                   /\ Len(embedded') = Len(embedded) + 1
                   /\ embedded'[Len(embedded')].win = last'.target ]_vars

\* a second window was docked after the first and stands behind it
C13_Witness ==
    /\ DockRan
    /\ Len(embedded) = 2
    /\ embedded[2].win = last.target
    /\ embedded[1].win # last.target

\* C14: within one dock request the steps come in the order subscribe,
\* withdrawn state, registry append, handshake, map, invalidations; the first
\* three happen once each, for the target.
C14_StepOrder ==
    DockRan =>
        LET steps == << "xcb_change_window_attributes", "window_setstate",
                        "xembed_window_list_append", "xembed_embedded_notify",
                        "xcb_map_window", "widget_invalidate_cache" >>
        IN  /\ \A a, b \in 1..Len(steps) : a < b => Before(steps[a], steps[b])
            /\ \A a \in 1..3 :
                /\ Cardinality(CallsNamed(steps[a])) = 1
                /\ \A i \in CallsNamed(steps[a]) : calls[i].win = last.target
            /\ ~crashed => CallsNamed("widget_invalidate_cache") # {}

\* a dock request that went through all six steps
C14_Witness ==
    /\ DockReturned
    /\ CallsNamed("xembed_embedded_notify") # {}
    /\ CallsNamed("xcb_map_window") # {}
    /\ CallsNamed("widget_invalidate_cache") # {}
    /\ EntriesOf(last.target) # {}

\* C15: a dock request sends the handshake exactly when the tray-owner
\* record of its screen holds a tray window; the handshake goes to the
\* target and carries that window; without one the target is still
\* registered and the caches are invalidated.
C15_HandshakeIffTray ==
    DockReturned =>
        LET hs == CallsNamed("xembed_embedded_notify")
            has == last.phys_screen \in Screens /\ systray[last.phys_screen] # 0
        IN  /\ (hs # {}) <=> has
            /\ has => \A i \in hs : /\ calls[i].win = last.target
                                    /\ calls[i].a = systray[last.phys_screen]
            /\ Cardinality(hs) <= 1
            /\ ~has => /\ EntriesOf(last.target) # {}
                       /\ CallsNamed("widget_invalidate_cache") # {}

\* C16: systray_init stores a new tray window in the record of its screen
\* and makes it the owner of that screen's tray selection atom; the records
\* of the other screens and the registry stay as they were.
C16_AnnounceEffect ==
    [][ last'.op = "init" =>
          LET s == last'.phys_screen
              w == last'.window
          IN  /\ w # 0
              /\ \A t \in Screens : systray[t] # w
              /\ systray'[s] = w
              /\ selowner'[TrayAtom(s)] = w
              /\ \E i \in CallsNamed("xcb_set_selection_owner")' :
                    calls'[i].win = w /\ calls'[i].a = TrayAtom(s)
              /\ \A t \in Screens \ {s} : systray'[t] = systray[t]
              /\ embedded' = embedded ]_vars

\* the last screen is announced while the first has a tray and a window is
\* registered
C16_Witness ==
    /\ last.op = "init"
    /\ last.phys_screen = NScreen - 1
    /\ systray[last.phys_screen] = last.window
    /\ systray[0] # 0
    /\ Len(embedded) > 0

\* C17: a dock request returns 0 for every input; with no info supplied and
\* no answer to the query the entry's info is zero, the target is not mapped
\* and a handshake carries version 0.
C17_NeverFails ==
    DockRan =>
        /\ ~crashed
        /\ last.status = 0
        /\ (last.info = NoInfo /\ last.reply = NoInfo)
            => /\ \A i \in EntriesOf(last.target) : embedded[i].info = ZeroInfo
               /\ CallsNamed("xcb_map_window") = {}
               /\ \A i \in CallsNamed("xembed_embedded_notify") : calls[i].b = 0

\* C18: with info supplied the entry holds exactly that info and no property
\* query is made; without, the window is queried once and an answer becomes
\* the entry's info; a dock by message never supplies info.
C18_InfoSource ==
    DockRan =>
        LET q == CallsNamed("xembed_info_get")
        IN  /\ last.info # NoInfo
                => /\ q = {}
                   /\ \A i \in EntriesOf(last.target) : embedded[i].info = last.info
            /\ last.info = NoInfo
                => /\ Cardinality(q) = 1
                   /\ \A i \in q : calls[i].win = last.target
                   /\ last.reply # NoInfo
                        => \A i \in EntriesOf(last.target) :
                                embedded[i].info = last.reply
            /\ last.op = "systray" => q # {}

\* a direct call supplied an info other than the zero one
C18_Witness ==
    /\ last.op = "request"
    /\ last.info \notin {NoInfo, ZeroInfo}
    /\ CallsNamed("xembed_info_get") = {}
    /\ \E i \in EntriesOf(last.target) : embedded[i].info = last.info

\* a dock by message found an info other than the zero one on the window
C18_WitnessQueried ==
    /\ last.op = "systray"
    /\ DockRan
    /\ last.reply \notin {NoInfo, ZeroInfo}
    /\ CallsNamed("xembed_info_get") # {}
    /\ \E i \in EntriesOf(last.target) : embedded[i].info = last.reply

\* C19: a focus request issues exactly one call, xembed_focus_in for the
\* sender with XEMBED_FOCUS_CURRENT, whether the sender is registered or not.
C19_FocusGrant ==
    (last.op = "xembed" /\ last.code = XEMBED_REQUEST_FOCUS)
        => /\ Len(calls) = 1
           /\ calls[1].call = "xembed_focus_in"
           /\ calls[1].win = last.window
           /\ calls[1].a = XEMBED_FOCUS_CURRENT

\* a window outside a registry that is not empty asked for the focus
C19_Witness ==
    /\ last.op = "xembed"
    /\ last.code = XEMBED_REQUEST_FOCUS
    /\ Len(embedded) > 0
    /\ EntriesOf(last.window) = {}
    /\ CallsNamed("xembed_focus_in") = {1}

\* C20: every registry entry's phys_screen is a screen index, and a dock by
\* message reads the tray-owner record of an existing screen only.
C20_ValidScreens ==
    /\ \A i \in 1..Len(embedded) : embedded[i].phys_screen \in Screens
    /\ (last.op = "systray" /\ DockRan) => last.phys_screen \in Screens

====
